---- MODULE Spec2Model ----
(***************************************************************************)
(* The dual-transport MCP session/request router of tability-mcp           *)
(* (the Express application of the HTTP server): the two session           *)
(* registries, the singleton backend client, the transport objects the     *)
(* handlers construct, and the requests that are suspended at an await.    *)
(*                                                                         *)
(* Every handler is cut at its await points: the synchronous code up to    *)
(* an await is one action, the continuation after it another.  The MCP     *)
(* SDK transports and the peers are the environment: whether connect,      *)
(* handleRequest and handlePostMessage resolve or throw, when a transport  *)
(* assigns its session id, and when it closes, are chosen freely.          *)
(* randomUUID is modelled as fresh: the id generated for the k-th          *)
(* transport object is k.                                                  *)
(***************************************************************************)
EXTENDS Integers, FiniteSets, Sequences, TLC

VARIABLES
    transports,      \* Map<string, StreamableHTTPServerTransport>: id -> object
    sseTransports,   \* Map<string, {transport, apiToken}>
    clientInstance,  \* the singleton TabilityClient (its apiToken), or Null
    tr,              \* the transport objects constructed so far
    pending,         \* the requests suspended at an await
    last             \* the last observable event (response, forward, tool call)

vars == <<transports, sseTransports, clientInstance, tr, pending, last>>

----------------------------------------------------------------------------
(* Bounds *)

MaxTransports == 2          \* transport objects constructed in one run
MaxInflight == 2            \* requests suspended at the same time

TIds == 1..MaxTransports

----------------------------------------------------------------------------
(* Values *)

Null == "null"              \* null / undefined
Tokens == {"tokA", "tokB"}
Methods == {"GET", "POST", "DELETE"}

\* An absent (undefined) mcp-session-id header or sessionId query parameter.
NoSid == 0
\* An id no randomUUID call of the run returns.
BogusId == MaxTransports + 1

\* `!x` of JavaScript for string | null | undefined.
Falsy(x) == x = Null \/ x = ""

----------------------------------------------------------------------------
(* Map operations *)

MapHas(m, k) == k \in DOMAIN m
MapSet(m, k, v) == [x \in (DOMAIN m) \cup {k} |-> IF x = k THEN v ELSE m[x]]
MapDelete(m, k) == [x \in (DOMAIN m) \ {k} |-> m[x]]
MapSize(m) == Cardinality(DOMAIN m)
EmptyMap == [x \in {} |-> 0]

----------------------------------------------------------------------------
(* Credential extractor *)

\* The three credential locations of a request.
\* Authorization: absent, `Bearer <v>` (v may be empty), or another scheme.
AuthHeaders ==
    {[k |-> "absent", v |-> ""], [k |-> "other", v |-> "tokA"]}
        \cup {[k |-> "bearer", v |-> t] : t \in Tokens \cup {""}}
\* ?config=: absent, not decodable (k = "bad"), or base64 JSON of an object
\* whose apiToken is v (Null: the object has no apiToken field).
ConfigParams ==
    {[k |-> "absent", v |-> ""], [k |-> "bad", v |-> ""]}
        \cup {[k |-> "json", v |-> t] : t \in Tokens \cup {"", Null}}
\* X-API-Token: absent or a string.
XTokenHeaders ==
    {[k |-> "absent", v |-> ""]}
        \cup {[k |-> "string", v |-> t] : t \in Tokens \cup {""}}

\* Variant: a config parameter that cannot be decoded ends the extraction.
extractApiToken_BadConfigFails(auth, config, xtok) ==
    IF auth.k = "bearer" THEN auth.v
    ELSE IF config.k = "bad" THEN Null
    ELSE IF config.k = "json" /\ ~Falsy(config.v) THEN config.v
    ELSE IF xtok.k = "string" THEN xtok.v
    ELSE Null

extractApiToken(auth, config, xtok) ==
    IF auth.k = "bearer" THEN auth.v
    ELSE IF config.k = "json" /\ ~Falsy(config.v) THEN config.v
    ELSE IF xtok.k = "string" THEN xtok.v
    ELSE Null

\* What the extractor returns over all requests.
RequestTokens ==
    {extractApiToken(auth, config, xtok) :
        auth \in AuthHeaders, config \in ConfigParams, xtok \in XTokenHeaders}

\* The requests the extractor finds no usable credential in: `!apiToken`.
FalsyTokens == {t \in RequestTokens : Falsy(t)}
\* The credentials of the requests that pass `!apiToken`.
TruthyTokens == RequestTokens \ FalsyTokens

----------------------------------------------------------------------------
(* Backend client singleton *)

\* TABILITY_API_TOKEN is not set in the HTTP deployment (Dockerfile).
EnvToken == Null

getClient == IF clientInstance = Null THEN EnvToken ELSE clientInstance

initClient(apiToken) == apiToken

\* Variant: the singleton is initialised once and kept.
createMcpServer_KeepFirst(apiToken) ==
    IF clientInstance = Null THEN initClient(apiToken) ELSE clientInstance

\* createMcpServer's effect on the module state: the singleton is replaced.
createMcpServer(apiToken) == initClient(apiToken)

----------------------------------------------------------------------------
(* Express routing: the first registered route that matches handles the   *)
(* request; no handler of this application calls next().                   *)

\* Variant: app.delete('/mcp') registered before app.all('/mcp').
RoutesDeleteFirst ==
    << [m |-> "GET",    p |-> "/health",   h |-> "health"],
       [m |-> "GET",    p |-> "/",         h |-> "root"],
       [m |-> "DELETE", p |-> "/mcp",      h |-> "mcp_delete"],
       [m |-> "ALL",    p |-> "/mcp",      h |-> "mcp_all"],
       [m |-> "GET",    p |-> "/sse",      h |-> "sse"],
       [m |-> "POST",   p |-> "/messages", h |-> "messages"] >>

Routes ==
    << [m |-> "GET",    p |-> "/health",   h |-> "health"],
       [m |-> "GET",    p |-> "/",         h |-> "root"],
       [m |-> "ALL",    p |-> "/mcp",      h |-> "mcp_all"],
       [m |-> "DELETE", p |-> "/mcp",      h |-> "mcp_delete"],
       [m |-> "GET",    p |-> "/sse",      h |-> "sse"],
       [m |-> "POST",   p |-> "/messages", h |-> "messages"] >>

Matches(r, m, p) == r.p = p /\ (r.m = "ALL" \/ r.m = m)

Route(m, p) ==
    LET hits == {i \in DOMAIN Routes : Matches(Routes[i], m, p)}
    IN  IF hits = {} THEN "none"
        ELSE Routes[CHOOSE i \in hits : \A j \in hits : i <= j].h

Paths == {"/health", "/", "/mcp", "/sse", "/messages"}
\* The handler Express runs for each method and path.
Handler == [m \in Methods, p \in Paths |-> Route(m, p)]

----------------------------------------------------------------------------
(* Transport objects and suspended requests *)

\* kind: "none" (not constructed), "http", "sse", or "closed" (closed, or no
\* longer referred to by the router).
\* sid: transport.sessionId (NoSid while unassigned); cred: the credential the
\* session was created with; onclose: the router's close handler is set.
NoTransport == [kind |-> "none", sid |-> NoSid, cred |-> Null, onclose |-> FALSE]
ClosedTransport ==
    [kind |-> "closed", sid |-> NoSid, cred |-> Null, onclose |-> FALSE]

Constructed == {t \in TIds : tr[t].kind # "none"}
NextT == Cardinality(Constructed) + 1

\* Transport object t after it closed: it keeps its session id.
Closed(t) == [ClosedTransport EXCEPT !.sid =
                 IF tr[t].kind = "http" THEN tr[t].sid ELSE NoSid]

NoEvent == [ev |-> "none", path |-> "", status |-> "", body |-> "",
            t |-> 0, used |-> Null]

Init ==
    /\ transports = EmptyMap
    /\ sseTransports = EmptyMap
    /\ clientInstance = Null
    /\ tr = [t \in TIds |-> NoTransport]
    /\ pending = {}
    /\ last = NoEvent

----------------------------------------------------------------------------
(* Helpers of the actions *)

Ev(ev, path, status, body, t, used) ==
    [ev |-> ev, path |-> path, status |-> status, body |-> body,
     t |-> t, used |-> used]

\* res.status(code).json({error, message}) / .json({error}) / .send()
Respond(path, status, body) ==
    last' = Ev("response", path, status, body, 0, Null)

\* A handler reaches an await: the request is suspended at pc on transport t.
Suspend(pc, t) ==
    /\ Cardinality(pending) < MaxInflight
    /\ [pc |-> pc, t |-> t] \notin pending
    /\ pending' = pending \cup {[pc |-> pc, t |-> t]}

\* Session ids a client can present: ids generated so far, or one never
\* generated.
ClientSids == Constructed \cup {NoSid, BogusId}

\* transport.onclose of a streaming transport.
StreamingOnClose(t, m) ==
    IF tr[t].sid # NoSid THEN MapDelete(m, tr[t].sid) ELSE m

\* transport.onclose of a legacy transport; the session id generated for
\* transport object t is t.
SseOnClose(t, m) == MapDelete(m, t)

----------------------------------------------------------------------------
(* app.all('/mcp') *)

\* Variant: a reused session rebinds the backend client to its credential.
McpReuse_Rebind(sid) ==
    /\ Suspend("mcp_handle", transports[sid])
    /\ last' = Ev("forward", "/mcp", "", "", transports[sid], Null)
    /\ clientInstance' = createMcpServer(tr[transports[sid]].cred)
    /\ UNCHANGED <<transports, sseTransports, tr>>

\* The three outcomes of app.all('/mcp') past the credential check.
McpReuse(sid) ==
    \* reuse: transport.handleRequest is called and awaited
    /\ Suspend("mcp_handle", transports[sid])
    /\ last' = Ev("forward", "/mcp", "", "", transports[sid], Null)
    /\ UNCHANGED <<transports, sseTransports, clientInstance, tr>>

\* Variant: the transport is registered under a generated id before connect
\* is awaited, as app.get('/sse') does.
McpCreate_RegisterFirst(tok) ==
    /\ NextT <= MaxTransports
    /\ Suspend("mcp_connect", NextT)
    /\ tr' = [tr EXCEPT ![NextT] =
                 [kind |-> "http", sid |-> NextT, cred |-> tok,
                  onclose |-> TRUE]]
    /\ transports' = MapSet(transports, NextT, NextT)
    /\ clientInstance' = createMcpServer(tok)
    /\ last' = NoEvent
    /\ UNCHANGED sseTransports

McpCreate(tok) ==
    \* create: new transport, createMcpServer, connect is awaited
    /\ NextT <= MaxTransports
    /\ Suspend("mcp_connect", NextT)
    /\ tr' = [tr EXCEPT ![NextT] =
                 [kind |-> "http", sid |-> NoSid, cred |-> tok,
                  onclose |-> FALSE]]
    /\ clientInstance' = createMcpServer(tok)
    /\ last' = NoEvent
    /\ UNCHANGED <<transports, sseTransports>>

\* Variant: the 404 body of app.delete('/mcp'), which has no message.
McpNotFound_ErrorOnly ==
    /\ Respond("/mcp", "404", "error")
    /\ UNCHANGED <<transports, sseTransports, clientInstance, tr, pending>>

McpNotFound ==
    /\ Respond("/mcp", "404", "error+message")
    /\ UNCHANGED <<transports, sseTransports, clientInstance, tr, pending>>

McpUnauthorized ==
    /\ Respond("/mcp", "401", "error+message")
    /\ UNCHANGED <<transports, sseTransports, clientInstance, tr, pending>>

\* Variant: the credential is checked only after the session is resolved
\* or created.
McpAll_AuthLast(m, tok, sid) ==
    IF sid # NoSid /\ MapHas(transports, sid) THEN McpReuse(sid)
    ELSE IF m = "GET" \/ sid = NoSid THEN McpCreate(tok)
    ELSE IF Falsy(tok) THEN McpUnauthorized
    ELSE McpNotFound

\* Variant: an unknown session id creates a session whatever the method.
McpAll_CreateOnUnknown(m, tok, sid) ==
    IF Falsy(tok) THEN McpUnauthorized
    ELSE IF sid # NoSid /\ MapHas(transports, sid) THEN McpReuse(sid)
    ELSE McpCreate(tok)

\* Variant: the creation verb is taken to be POST.
McpAll_PostCreates(m, tok, sid) ==
    IF Falsy(tok) THEN McpUnauthorized
    ELSE IF sid # NoSid /\ MapHas(transports, sid) THEN McpReuse(sid)
    ELSE IF m = "POST" \/ sid = NoSid THEN McpCreate(tok)
    ELSE McpNotFound

\* Variant: the single-session shortcut of /messages on /mcp: an unknown or
\* missing id is resolved to the only registered session.
McpAll_SoleShortcut(m, tok, sid) ==
    IF Falsy(tok) THEN McpUnauthorized
    ELSE IF sid # NoSid /\ MapHas(transports, sid) THEN McpReuse(sid)
    ELSE IF MapSize(transports) = 1
         THEN McpReuse(CHOOSE k \in DOMAIN transports : TRUE)
    ELSE IF m = "GET" \/ sid = NoSid THEN McpCreate(tok)
    ELSE McpNotFound

\* Variant: a session is reused only with the credential that created it.
McpAll_CredentialBound(m, tok, sid) ==
    IF Falsy(tok) THEN McpUnauthorized
    ELSE IF sid # NoSid /\ MapHas(transports, sid)
         THEN IF tok = tr[transports[sid]].cred THEN McpReuse(sid)
              ELSE McpUnauthorized
    ELSE IF m = "GET" \/ sid = NoSid THEN McpCreate(tok)
    ELSE McpNotFound

McpAll(m, tok, sid) ==
    IF Falsy(tok) THEN McpUnauthorized
    ELSE IF sid # NoSid /\ MapHas(transports, sid) THEN McpReuse(sid)
    ELSE IF m = "GET" \/ sid = NoSid THEN McpCreate(tok)
    ELSE McpNotFound

\* Variant: the connected transport is stored under the id the first session
\* was given.
McpConnected_FirstKey(r, ok, assigned) ==
    /\ r \in pending
    /\ r.pc = "mcp_connect"
    /\ IF ok THEN
           /\ tr' = [tr EXCEPT ![r.t].sid = IF assigned THEN r.t ELSE NoSid,
                               ![r.t].onclose = assigned]
           /\ transports' =
                  IF assigned THEN MapSet(transports, 1, r.t) ELSE transports
           /\ pending' = (pending \ {r}) \cup {[pc |-> "mcp_handle", t |-> r.t]}
           /\ last' = NoEvent
           /\ UNCHANGED <<sseTransports, clientInstance>>
       ELSE
           /\ pending' = pending \ {r}
           /\ tr' = [tr EXCEPT ![r.t] = ClosedTransport]
           /\ last' = Ev("rejected", "/mcp", "", "", 0, Null)
           /\ UNCHANGED <<transports, sseTransports, clientInstance>>

\* `await mcpServer.server.connect(transport)` settles.  ok: it resolved;
\* assigned: the transport has its session id by then.
McpConnected(r, ok, assigned) ==
    /\ r \in pending
    /\ r.pc = "mcp_connect"
    /\ IF ok THEN
           /\ tr' = [tr EXCEPT ![r.t].sid = IF assigned THEN r.t ELSE NoSid,
                               ![r.t].onclose = assigned]
           /\ transports' =
                  IF assigned THEN MapSet(transports, r.t, r.t) ELSE transports
           /\ pending' = (pending \ {r}) \cup {[pc |-> "mcp_handle", t |-> r.t]}
           /\ last' = NoEvent
           /\ UNCHANGED <<sseTransports, clientInstance>>
       ELSE
           \* the rejection leaves the async handler: no code of the router
           \* catches it or answers the request, and nothing refers to the
           \* transport any more
           /\ pending' = pending \ {r}
           /\ tr' = [tr EXCEPT ![r.t] = ClosedTransport]
           /\ last' = Ev("rejected", "/mcp", "", "", 0, Null)
           /\ UNCHANGED <<transports, sseTransports, clientInstance>>

\* `await transport.handleRequest(req, res, req.body)` settles.
\* late: the transport assigned its session id while handling the request
\* (it had none after connect).
McpHandled(r, outcome, late) ==
    /\ r \in pending
    /\ r.pc = "mcp_handle"
    /\ tr' = IF tr[r.t].kind = "http" /\ tr[r.t].sid = NoSid
             THEN IF late THEN [tr EXCEPT ![r.t].sid = r.t]
                  \* never registered: nothing refers to the transport any more
                  ELSE [tr EXCEPT ![r.t] = ClosedTransport]
             ELSE tr
    /\ pending' = pending \ {r}
    /\ last' =
           IF outcome = "throw"      \* thrown, headers not sent yet
           THEN Ev("response", "/mcp", "500", "error+message", 0, Null)
           ELSE Ev("response", "/mcp", "transport", "transport", 0, Null)
    /\ UNCHANGED <<transports, sseTransports, clientInstance>>

----------------------------------------------------------------------------
(* app.delete('/mcp') *)

McpDelete(m, tok, sid) ==
    IF sid # NoSid /\ MapHas(transports, sid) THEN
        \* transport.close() runs the onclose handler, then the entry is deleted
        /\ tr' = [tr EXCEPT ![transports[sid]] = Closed(transports[sid])]
        /\ transports' =
               MapDelete(IF tr[transports[sid]].onclose
                         THEN StreamingOnClose(transports[sid], transports)
                         ELSE transports, sid)
        /\ Respond("/mcp", "204", "empty")
        /\ UNCHANGED <<sseTransports, clientInstance, pending>>
    ELSE
        /\ Respond("/mcp", "404", "error")
        /\ UNCHANGED <<transports, sseTransports, clientInstance, tr, pending>>

\* A request to /mcp, dispatched by Express.
McpRequest(m, tok, sid) ==
    IF Handler[m, "/mcp"] = "mcp_all" THEN McpAll(m, tok, sid)
    ELSE IF Handler[m, "/mcp"] = "mcp_delete" THEN McpDelete(m, tok, sid)
    ELSE FALSE

HttpMcp ==
    \E m \in Methods, tok \in RequestTokens, sid \in ClientSids :
        McpRequest(m, tok, sid)

----------------------------------------------------------------------------
(* app.get('/sse') *)

\* Variant: the legacy session id is not fresh.
Sse_FixedId(tok) ==
    IF Falsy(tok) THEN
        /\ Respond("/sse", "401", "error+message")
        /\ UNCHANGED <<transports, sseTransports, clientInstance, tr, pending>>
    ELSE
        /\ NextT <= MaxTransports
        /\ Suspend("sse_connect", NextT)
        /\ tr' = [tr EXCEPT ![NextT] =
                     [kind |-> "sse", sid |-> 1, cred |-> tok,
                      onclose |-> TRUE]]
        /\ sseTransports' = MapSet(sseTransports, 1,
                                   [transport |-> NextT, apiToken |-> tok])
        /\ clientInstance' = createMcpServer(tok)
        /\ last' = NoEvent
        /\ UNCHANGED transports

Sse(tok) ==
    IF Falsy(tok) THEN
        /\ Respond("/sse", "401", "error+message")
        /\ UNCHANGED <<transports, sseTransports, clientInstance, tr, pending>>
    ELSE
        \* sessionId = randomUUID(); new SSEServerTransport; sseTransports.set;
        \* createMcpServer; transport.onclose = ...; connect is awaited
        /\ NextT <= MaxTransports
        /\ Suspend("sse_connect", NextT)
        /\ tr' = [tr EXCEPT ![NextT] =
                     [kind |-> "sse", sid |-> NextT, cred |-> tok,
                      onclose |-> TRUE]]
        /\ sseTransports' = MapSet(sseTransports, NextT,
                                   [transport |-> NextT, apiToken |-> tok])
        /\ clientInstance' = createMcpServer(tok)
        /\ last' = NoEvent
        /\ UNCHANGED transports

SseRequest(tok) == Handler["GET", "/sse"] = "sse" /\ Sse(tok)

HttpSse == \E tok \in RequestTokens : SseRequest(tok)

\* Variant: a failed connect leaves the entry stored before it.
SseConnected_KeepsEntry(r, outcome) ==
    /\ r \in pending
    /\ r.pc = "sse_connect"
    /\ pending' = pending \ {r}
    /\ last' =
           IF outcome = "throw"
           THEN Ev("response", "/sse", "500", "error+message", 0, Null)
           ELSE Ev("response", "/sse", "transport", "transport", 0, Null)
    /\ UNCHANGED <<transports, sseTransports, tr, clientInstance>>

\* `await mcpServer.server.connect(transport)` settles.
SseConnected(r, outcome) ==
    /\ r \in pending
    /\ r.pc = "sse_connect"
    /\ pending' = pending \ {r}
    /\ IF outcome = "ok" THEN
           /\ last' = Ev("response", "/sse", "transport", "transport", 0, Null)
           /\ UNCHANGED sseTransports
           /\ UNCHANGED tr
       ELSE
           \* the entry is deleted; nothing the router holds refers to the
           \* transport any more
           /\ sseTransports' = MapDelete(sseTransports, r.t)
           /\ tr' = [tr EXCEPT ![r.t] = ClosedTransport]
           /\ last' =
                  IF outcome = "throw"      \* thrown, headers not sent yet
                  THEN Ev("response", "/sse", "500", "error+message", 0, Null)
                  ELSE Ev("response", "/sse", "transport", "transport", 0, Null)
    /\ UNCHANGED <<transports, clientInstance>>

----------------------------------------------------------------------------
(* app.post('/messages') *)

\* sseTransports.values().next().value when the map has one entry
SoleSession == sseTransports[CHOOSE k \in DOMAIN sseTransports : TRUE]

\* What a forward event on /messages records of the request: whether it
\* carried a sessionId query parameter, and whether the registry has it.
Carried(sid) ==
    IF sid = NoSid THEN "no sessionId"
    ELSE IF MapHas(sseTransports, sid) THEN "sessionId"
    ELSE "unknown sessionId"

\* `await transport.handlePostMessage(req, res, req.body)` is reached for the
\* request on transport t.
MsgForward(sid, t) ==
    /\ Suspend("msg_handle", t)
    /\ last' = Ev("forward", "/messages", "", Carried(sid), t, Null)
    /\ UNCHANGED <<transports, sseTransports, clientInstance, tr>>

\* res.status(status).json({error, message}) of app.post('/messages').
MsgRespond(status) ==
    /\ Respond("/messages", status, "error+message")
    /\ UNCHANGED <<transports, sseTransports, clientInstance, tr, pending>>

\* Variant: a named session is resolved to the first entry of the registry.
Messages_FirstSession(tok, sid) ==
    IF sid # NoSid /\ MapHas(sseTransports, sid) THEN
        MsgForward(sid, sseTransports[CHOOSE k \in DOMAIN sseTransports :
                           \A j \in DOMAIN sseTransports : k <= j].transport)
    ELSE IF MapSize(sseTransports) = 1 THEN MsgForward(sid, SoleSession.transport)
    ELSE IF MapSize(sseTransports) > 1 THEN MsgRespond("400")
    ELSE MsgRespond("404")

\* Variant: no single-session shortcut.
Messages_NoShortcut(tok, sid) ==
    IF sid # NoSid /\ MapHas(sseTransports, sid) THEN
        MsgForward(sid, sseTransports[sid].transport)
    ELSE IF MapSize(sseTransports) >= 1 THEN MsgRespond("400")
    ELSE MsgRespond("404")

\* Variant: the shortcut is taken whenever some session is active.
Messages_ShortcutAny(tok, sid) ==
    IF sid # NoSid /\ MapHas(sseTransports, sid) THEN
        MsgForward(sid, sseTransports[sid].transport)
    ELSE IF MapSize(sseTransports) >= 1 THEN
        MsgForward(sid, sseTransports[CHOOSE k \in DOMAIN sseTransports :
                           \A j \in DOMAIN sseTransports : k <= j].transport)
    ELSE MsgRespond("404")

\* Variant: the credential is checked again on message delivery.
Messages_CheckCredential(tok, sid) ==
    IF Falsy(tok) THEN MsgRespond("401")
    ELSE IF sid # NoSid /\ MapHas(sseTransports, sid) THEN
        MsgForward(sid, sseTransports[sid].transport)
    ELSE IF MapSize(sseTransports) = 1 THEN MsgForward(sid, SoleSession.transport)
    ELSE IF MapSize(sseTransports) > 1 THEN MsgRespond("400")
    ELSE MsgRespond("404")

\* Variant: the shortcut picks the newest session whenever the id does not
\* resolve.
Messages_NewestSession(tok, sid) ==
    IF sid # NoSid /\ MapHas(sseTransports, sid) THEN
        MsgForward(sid, sseTransports[sid].transport)
    ELSE IF MapSize(sseTransports) >= 1 THEN
        MsgForward(sid, sseTransports[CHOOSE k \in DOMAIN sseTransports :
                           \A j \in DOMAIN sseTransports : j <= k].transport)
    ELSE MsgRespond("404")

Messages(tok, sid) ==
    IF sid # NoSid /\ MapHas(sseTransports, sid) THEN
        MsgForward(sid, sseTransports[sid].transport)
    ELSE IF MapSize(sseTransports) = 1 THEN MsgForward(sid, SoleSession.transport)
    ELSE IF MapSize(sseTransports) > 1 THEN MsgRespond("400")
    ELSE MsgRespond("404")

MessagesRequest(tok, sid) ==
    Handler["POST", "/messages"] = "messages" /\ Messages(tok, sid)

HttpMessages ==
    \E tok \in RequestTokens, sid \in ClientSids : MessagesRequest(tok, sid)

\* Variant: a failed message tears the session down.
MsgHandled_Teardown(r, outcome) ==
    /\ r \in pending
    /\ r.pc = "msg_handle"
    /\ pending' = pending \ {r}
    /\ last' =
           IF outcome = "throw"
           THEN Ev("response", "/messages", "500", "error+message", 0, Null)
           ELSE Ev("response", "/messages", "transport", "transport", 0, Null)
    /\ sseTransports' = IF outcome = "ok" THEN sseTransports
                        ELSE MapDelete(sseTransports, r.t)
    /\ UNCHANGED <<transports, clientInstance, tr>>

\* `await transport.handlePostMessage(req, res, req.body)` settles.
MsgHandled(r, outcome) ==
    /\ r \in pending
    /\ r.pc = "msg_handle"
    /\ pending' = pending \ {r}
    /\ last' =
           IF outcome = "throw"      \* thrown, headers not sent yet
           THEN Ev("response", "/messages", "500", "error+message", 0, Null)
           ELSE Ev("response", "/messages", "transport", "transport", 0, Null)
    /\ UNCHANGED <<transports, sseTransports, clientInstance, tr>>

----------------------------------------------------------------------------
(* app.get('/health'), app.get('/') *)

\* Variant: the liveness body reports whether sessions are open.
Health_SessionCount ==
    /\ Handler["GET", "/health"] = "health"
    /\ Respond("/health", "200",
               IF transports = EmptyMap /\ sseTransports = EmptyMap
               THEN "status" ELSE "status+sessions")
    /\ UNCHANGED <<transports, sseTransports, clientInstance, tr, pending>>

Health ==
    /\ Handler["GET", "/health"] = "health"
    /\ Respond("/health", "200", "status")
    /\ UNCHANGED <<transports, sseTransports, clientInstance, tr, pending>>

Root ==
    /\ Handler["GET", "/"] = "root"
    /\ Respond("/", "200", "info")
    /\ UNCHANGED <<transports, sseTransports, clientInstance, tr, pending>>

----------------------------------------------------------------------------
(* The environment: the transports and their peers *)

\* Variant: closing a transport drops the requests in flight on it.
TransportClose_Cancels(t) ==
    /\ tr[t].kind \in {"http", "sse"}
    /\ [pc |-> "mcp_connect", t |-> t] \notin pending
    /\ tr' = [tr EXCEPT ![t] = Closed(t)]
    /\ transports' = IF tr[t].kind = "http" /\ tr[t].onclose
                     THEN StreamingOnClose(t, transports) ELSE transports
    /\ sseTransports' = IF tr[t].kind = "sse" /\ tr[t].onclose
                        THEN SseOnClose(t, sseTransports) ELSE sseTransports
    /\ last' = NoEvent
    /\ pending' = {r \in pending : r.t # t}
    /\ UNCHANGED clientInstance

\* A transport closes (peer disconnect, or the transport's own handling of a
\* termination request): its onclose handler runs once.
TransportClose(t) ==
    /\ tr[t].kind \in {"http", "sse"}
    /\ [pc |-> "mcp_connect", t |-> t] \notin pending
    /\ tr' = [tr EXCEPT ![t] = Closed(t)]
    /\ transports' = IF tr[t].kind = "http" /\ tr[t].onclose
                     THEN StreamingOnClose(t, transports) ELSE transports
    /\ sseTransports' = IF tr[t].kind = "sse" /\ tr[t].onclose
                        THEN SseOnClose(t, sseTransports) ELSE sseTransports
    /\ last' = NoEvent
    /\ UNCHANGED <<clientInstance, pending>>

\* What the downstream API call of a tool handler does: it resolves, or the
\* client throws an Error (non-2xx status, or fetch failed).
FailureMessages == {"Tability API error (401): denied", "fetch failed"}
Downstream ==
    {[k |-> "ok", isError |-> FALSE, message |-> ""]}
        \cup {[k |-> "throw", isError |-> TRUE, message |-> m] :
                  m \in FailureMessages}

\* The Error getClient throws when there is neither a singleton nor the
\* environment variable.
NoTokenError ==
    [k |-> "throw", isError |-> TRUE,
     message |-> "TABILITY_API_TOKEN environment variable is required"]

\* The catch clause of every tool handler: the value it returns for a thrown
\* value e.
CatchResult(e) ==
    [isError |-> TRUE,
     text |-> "Error: " \o (IF e.isError THEN e.message ELSE "Unknown error")]

\* The body of a tool handler: try { getClient(); await client.call(); return
\* the formatted response } catch (error) { return the error result }.
ToolHandler(d) ==
    IF getClient = Null THEN CatchResult(NoTokenError)
    ELSE IF d.k = "throw" THEN CatchResult(d)
    ELSE [isError |-> FALSE, text |-> "formatted"]

\* Variant: a tool handler without the try/catch: the failure leaves the
\* handler.
ToolCall_NoCatch(r, d) ==
    /\ r \in pending
    /\ r.pc \in {"mcp_handle", "msg_handle"}
    /\ last' = IF d.k = "throw"
               THEN Ev("tool", "", "thrown", d.message, r.t, getClient)
               ELSE Ev("tool", "", "result", "formatted", r.t, getClient)
    /\ UNCHANGED <<transports, sseTransports, clientInstance, tr, pending>>

\* A tool handler runs on the protocol server bound to the transport that is
\* handling a message: `const client = getClient()`, then the downstream call
\* with that client's token; the event records the handler's result.
ToolCall(r, d) ==
    /\ r \in pending
    /\ r.pc \in {"mcp_handle", "msg_handle"}
    /\ last' = Ev("tool", "", IF ToolHandler(d).isError THEN "isError" ELSE "result",
                  ToolHandler(d).text, r.t, getClient)
    /\ UNCHANGED <<transports, sseTransports, clientInstance, tr, pending>>

----------------------------------------------------------------------------

Outcomes == {"ok", "throw", "throw_sent"}

Next ==
    \/ HttpMcp
    \/ \E r \in pending, ok \in BOOLEAN, assigned \in BOOLEAN :
           McpConnected(r, ok, assigned)
    \/ \E r \in pending, o \in Outcomes, late \in BOOLEAN : McpHandled(r, o, late)
    \/ HttpSse
    \/ \E r \in pending, o \in Outcomes : SseConnected(r, o)
    \/ HttpMessages
    \/ \E r \in pending, o \in Outcomes : MsgHandled(r, o)
    \/ Health
    \/ Root
    \/ \E t \in TIds : TransportClose(t)
    \/ \E r \in pending, d \in Downstream : ToolCall(r, d)

Spec == Init /\ [][Next]_vars

----------------------------------------------------------------------------
(* Properties *)

\* What the router holds: the registries, the singleton client, the transport
\* objects and the suspended requests.
RouterState == <<transports, sseTransports, clientInstance, tr, pending>>

\* The step answers 401 and changes nothing the router holds.
Answered401 ==
    /\ last' = Ev("response", last'.path, "401", "error+message", 0, Null)
    /\ UNCHANGED RouterState

\* C1: every tool invocation made through a session calls the downstream API
\* with the credential that was presented when the session was created, never
\* with the credential of another session.
C1_CredentialIsolation ==
    (last.ev = "tool" /\ tr[last.t].kind \in {"http", "sse"})
        => last.used = tr[last.t].cred

\* C2: a request to /mcp that names no existing session, or to GET /sse,
\* that carries no credential is answered 401 and leaves both registries, the
\* backend client, the transport objects and the suspended requests as they
\* were.
C2_NoCredentialNoSession ==
    \A tok \in FalsyTokens :
        /\ ENABLED SseRequest(tok)
        /\ ~ENABLED (SseRequest(tok) /\ ~Answered401)
        /\ \A m \in Methods, sid \in ClientSids \ DOMAIN transports :
               /\ ENABLED McpRequest(m, tok, sid)
               /\ ~ENABLED (McpRequest(m, tok, sid) /\ ~Answered401)

C2_Witness ==
    /\ last.ev = "response" /\ last.status = "401" /\ last.path = "/sse"
    /\ sseTransports # EmptyMap

\* C3: on /mcp, for every method, a request without a credential is answered
\* 401, is not forwarded to a transport and closes or removes no session, also
\* when its mcp-session-id names an active session.
C3_CredentialBeforeLookup ==
    \A m \in Methods, tok \in FalsyTokens, sid \in ClientSids :
        /\ ENABLED McpRequest(m, tok, sid)
        /\ ~ENABLED (McpRequest(m, tok, sid) /\ ~Answered401)

C3_Witness ==
    /\ last.ev = "response" /\ last.status = "401" /\ last.path = "/mcp"
    /\ transports # EmptyMap

\* The step answers 404 SessionNotFound on /mcp and changes nothing the
\* router holds.
AnsweredNotFound ==
    /\ last' = Ev("response", "/mcp", "404", last'.body, 0, Null)
    /\ UNCHANGED RouterState

\* The streaming sessions: transports that have assigned their session id.
StreamingSessions == {t \in TIds : tr[t].kind = "http" /\ tr[t].sid # NoSid}
\* The ids of the streaming sessions that have been closed.
ClosedStreamingIds ==
    {tr[t].sid : t \in {u \in TIds : tr[u].kind = "closed" /\ tr[u].sid # NoSid}}

\* C4 as stated: after a streaming session has been closed, every later /mcp
\* request bearing its id, for any method, is answered 404 and creates no
\* session.
C4_Original ==
    \A sid \in ClosedStreamingIds, m \in Methods, tok \in TruthyTokens :
        ~ENABLED (McpRequest(m, tok, sid) /\ ~AnsweredNotFound)

\* C4 as amended: after a streaming session has been closed, its id is not in
\* the registry; every later /mcp request bearing that id with a credential
\* and a method other than GET is answered 404 and creates no session, and no
\* /mcp request (a GET creates a session under a fresh id) makes the closed
\* id resolvable again.
C4_ClosedIdNotFound ==
    \A sid \in ClosedStreamingIds :
        /\ ~MapHas(transports, sid)
        /\ \A m \in Methods \ {"GET"}, tok \in TruthyTokens :
               /\ ENABLED McpRequest(m, tok, sid)
               /\ ~ENABLED (McpRequest(m, tok, sid) /\ ~AnsweredNotFound)
        /\ \A m \in Methods, tok \in RequestTokens :
               ~ENABLED (McpRequest(m, tok, sid) /\ MapHas(transports', sid))

C4_Witness ==
    /\ ClosedStreamingIds # {}
    /\ last.ev = "response" /\ last.path = "/mcp" /\ last.status = "404"

\* C5: the streaming sessions created have pairwise distinct ids, each is
\* present in the streaming registry under its id, and closing one removes
\* exactly its entry and leaves the other entries as they were.
C5_DistinctIndependentSessions ==
    /\ \A t \in StreamingSessions :
           MapHas(transports, tr[t].sid) /\ transports[tr[t].sid] = t
    /\ \A t, u \in StreamingSessions : t # u => tr[t].sid # tr[u].sid
    /\ \A t \in StreamingSessions :
           ~ENABLED ( /\ TransportClose(t)
                      /\ transports' # MapDelete(transports, tr[t].sid) )

\* C6: a DELETE /mcp naming an active streaming session closes its transport,
\* removes its registry entry and is answered 204; one naming an id that is
\* not in the registry is answered 404 and changes nothing.
C6_DeleteClosesSession ==
    \A tok \in TruthyTokens, sid \in ClientSids \ {NoSid} :
        IF MapHas(transports, sid)
        THEN ~ENABLED ( /\ McpRequest("DELETE", tok, sid)
                        /\ ~( /\ last'.status = "204"
                              /\ ~MapHas(transports', sid)
                              /\ tr'[transports[sid]].kind = "closed" ) )
        ELSE ~ENABLED ( /\ McpRequest("DELETE", tok, sid)
                        /\ ~(last'.status = "404" /\ UNCHANGED RouterState) )

\* C7: every streaming session that is not closed is in the streaming registry
\* under the id its transport assigned, and a later /mcp request carrying that
\* id and a credential is forwarded to that same transport: no transport,
\* server or client is constructed.
C7_SessionReachableById ==
    \A t \in StreamingSessions :
        /\ MapHas(transports, tr[t].sid)
        /\ transports[tr[t].sid] = t
        /\ \A m \in Methods, tok \in TruthyTokens :
               ~ENABLED ( /\ McpRequest(m, tok, tr[t].sid)
                          /\ ~( /\ last' = Ev("forward", "/mcp", "", "", t, Null)
                                /\ UNCHANGED <<transports, sseTransports,
                                               clientInstance, tr>> ) )

\* C8: a /mcp request with a credential, a supplied mcp-session-id that is not
\* in the streaming registry and a method other than GET is answered 404; no
\* transport is created and the registry is unchanged.
C8_UnknownIdNotFound ==
    \A m \in Methods \ {"GET"}, tok \in TruthyTokens,
       sid \in ClientSids \ ({NoSid} \cup DOMAIN transports) :
        /\ ENABLED McpRequest(m, tok, sid)
        /\ ~ENABLED (McpRequest(m, tok, sid) /\ ~AnsweredNotFound)

C8_Witness ==
    /\ last.ev = "response" /\ last.path = "/mcp" /\ last.status = "404"
    /\ transports # EmptyMap
    /\ NextT <= MaxTransports /\ Cardinality(pending) < MaxInflight

C10_UnknownLegacyIdNotFound ==
    \A tok \in RequestTokens,
       sid \in ClientSids \ ({NoSid} \cup DOMAIN sseTransports) :
        sseTransports # EmptyMap
            => ~ENABLED ( /\ MessagesRequest(tok, sid)
                          /\ ~(last'.status = "404" /\ UNCHANGED RouterState) )

\* The request can be suspended at pc on transport t: the bound on suspended
\* requests leaves room for it.
CanSuspend(pc, t) ==
    Cardinality(pending) < MaxInflight /\ [pc |-> pc, t |-> t] \notin pending

\* The step hands a /messages request to transport t's handlePostMessage and
\* changes nothing else.
ForwardedTo(t) ==
    /\ last'.ev = "forward" /\ last'.path = "/messages" /\ last'.t = t
    /\ pending' = pending \cup {[pc |-> "msg_handle", t |-> t]}
    /\ UNCHANGED <<transports, sseTransports, clientInstance, tr>>

\* C11: a POST /messages whose sessionId names an active legacy session is
\* forwarded to the transport of that session and to no other, however many
\* legacy sessions are active.
C11_NamedLegacySession ==
    \A tok \in RequestTokens, sid \in DOMAIN sseTransports :
        /\ tr[sseTransports[sid].transport].kind = "sse"
        /\ tr[sseTransports[sid].transport].sid = sid
        /\ CanSuspend("msg_handle", sseTransports[sid].transport)
               => ENABLED MessagesRequest(tok, sid)
        /\ ~ENABLED ( /\ MessagesRequest(tok, sid)
                      /\ ~ForwardedTo(sseTransports[sid].transport) )

C11_Witness ==
    /\ MapSize(sseTransports) >= 2
    /\ last.ev = "forward" /\ last.path = "/messages"
    /\ last.body = "sessionId"
    /\ \E sid \in DOMAIN sseTransports :
           /\ sseTransports[sid].transport = last.t
           /\ \E k \in DOMAIN sseTransports : k < sid

\* C12: a POST /messages with no sessionId, issued while exactly one legacy
\* session is in the registry, is forwarded to that session's transport.
C12_SoleSessionShortcut ==
    \A tok \in RequestTokens :
        MapSize(sseTransports) = 1 =>
            /\ CanSuspend("msg_handle", SoleSession.transport)
                   => ENABLED MessagesRequest(tok, NoSid)
            /\ ~ENABLED ( /\ MessagesRequest(tok, NoSid)
                          /\ ~ForwardedTo(SoleSession.transport) )

C12_Witness ==
    /\ MapSize(sseTransports) = 1
    /\ last.ev = "forward" /\ last.path = "/messages"
    /\ last.body = "no sessionId"
    /\ last.t = SoleSession.transport

\* The step answers the given status on /messages, delivers the message to no
\* transport and changes nothing the router holds.
MessagesAnswered(status) ==
    /\ last' = Ev("response", "/messages", status, last'.body, 0, Null)
    /\ UNCHANGED RouterState

\* C13: a POST /messages with no sessionId is answered 400 when two or more
\* legacy sessions are active and 404 when none is; in both cases the message
\* is delivered to no transport and the registry is unchanged.
C13_AmbiguousOrNoSession ==
    \A tok \in RequestTokens :
        /\ MapSize(sseTransports) >= 2 =>
               /\ ENABLED MessagesRequest(tok, NoSid)
               /\ ~ENABLED ( /\ MessagesRequest(tok, NoSid)
                             /\ ~MessagesAnswered("400") )
        /\ MapSize(sseTransports) = 0 =>
               /\ ENABLED MessagesRequest(tok, NoSid)
               /\ ~ENABLED ( /\ MessagesRequest(tok, NoSid)
                             /\ ~MessagesAnswered("404") )

C13_Witness ==
    /\ MapSize(sseTransports) >= 2
    /\ last.ev = "response" /\ last.path = "/messages" /\ last.status = "400"

\* A credential location carries a credential: a Bearer token that is not
\* empty, a config object with a non-empty apiToken, a non-empty X-API-Token.
AuthCarries(auth) == auth.k = "bearer" /\ auth.v # ""
ConfigCarries(config) == config.k = "json" /\ ~Falsy(config.v)
XTokenCarries(xtok) == xtok.k = "string" /\ xtok.v # ""

\* The credential the precedence order selects among the locations that
\* carry one.
Preferred(auth, config, xtok) ==
    IF AuthCarries(auth) THEN auth.v
    ELSE IF ConfigCarries(config) THEN config.v
    ELSE xtok.v

\* C14: of the locations that carry a credential the extractor returns the
\* Authorization Bearer token before the config query token, and the config
\* query token before the X-API-Token header; when exactly one location carries
\* a credential it returns that credential.  The returned value is observed
\* as the credential GET /sse hands to createMcpServer.
C14_ExtractorPrecedence ==
    \A auth \in AuthHeaders, config \in ConfigParams, xtok \in XTokenHeaders :
        (AuthCarries(auth) \/ ConfigCarries(config) \/ XTokenCarries(xtok)) =>
            /\ extractApiToken(auth, config, xtok) = Preferred(auth, config, xtok)
            /\ ~ENABLED ( /\ SseRequest(extractApiToken(auth, config, xtok))
                          /\ clientInstance' # Preferred(auth, config, xtok) )

\* C15: a request to /mcp or GET /sse that carries a non-empty credential in
\* at least one of the three locations is never answered 401, whatever the
\* other two locations contain.
C15_RecognizedCredentialAccepted ==
    \A auth \in AuthHeaders, config \in ConfigParams, xtok \in XTokenHeaders :
        (AuthCarries(auth) \/ ConfigCarries(config) \/ XTokenCarries(xtok)) =>
            /\ ~ENABLED ( /\ SseRequest(extractApiToken(auth, config, xtok))
                          /\ last'.status = "401" )
            /\ \A m \in Methods, sid \in ClientSids :
                   ~ENABLED ( /\ McpRequest(m, extractApiToken(auth, config, xtok),
                                            sid)
                              /\ last'.status = "401" )

\* The step answers 500 with the fault's message.
Answered500 ==
    /\ last'.ev = "response" /\ last'.status = "500"
    /\ last'.body = "error+message"

\* C16: every fault a transport operation raises on behalf of a request
\* (connect on /mcp, connect on /sse, handleRequest, handlePostMessage) while
\* the response headers are not sent yet is answered 500 with the fault's
\* message; no fault leaves the request without a response.
C16_FaultsAnswered500 ==
    \A r \in pending :
        /\ r.pc = "mcp_connect" =>
               \A assigned \in BOOLEAN :
                   ~ENABLED (McpConnected(r, FALSE, assigned) /\ ~Answered500)
        /\ r.pc = "mcp_handle" =>
               \A late \in BOOLEAN :
                   ~ENABLED (McpHandled(r, "throw", late) /\ ~Answered500)
        /\ r.pc = "sse_connect" =>
               ~ENABLED (SseConnected(r, "throw") /\ ~Answered500)
        /\ r.pc = "msg_handle" =>
               ~ENABLED (MsgHandled(r, "throw") /\ ~Answered500)

\* C17: when handleRequest on /mcp or handlePostMessage on /messages throws,
\* the router leaves both registries as they were: the session stays
\* registered and resolvable.
C17_FailureKeepsSessions ==
    \A r \in pending, o \in {"throw", "throw_sent"} :
        /\ r.pc = "mcp_handle" =>
               \A late \in BOOLEAN :
                   /\ ENABLED McpHandled(r, o, late)
                   /\ ~ENABLED ( /\ McpHandled(r, o, late)
                                 /\ ~UNCHANGED <<transports, sseTransports>> )
        /\ r.pc = "msg_handle" =>
               /\ ENABLED MsgHandled(r, o)
               /\ ~ENABLED ( /\ MsgHandled(r, o)
                             /\ ~UNCHANGED <<transports, sseTransports>> )

C17_Witness ==
    /\ last.ev = "response" /\ last.path = "/messages" /\ last.status = "500"
    /\ sseTransports # EmptyMap
    /\ \A sid \in DOMAIN sseTransports :
           tr[sseTransports[sid].transport].kind = "sse"

\* C18: the outcome of POST /messages depends only on the sessionId and the
\* legacy registry: requests that differ only in their credential (present,
\* absent or different) have the same outcome, and none is answered 401.
C18_MessagesIgnoreCredential ==
    \A sid \in ClientSids, tok \in RequestTokens :
        /\ ENABLED MessagesRequest(tok, sid) <=> ENABLED MessagesRequest(Null, sid)
        /\ ~ENABLED (MessagesRequest(tok, sid) /\ ~MessagesRequest(Null, sid))
        /\ ~ENABLED (MessagesRequest(tok, sid) /\ last'.status = "401")

C18_Witness ==
    /\ last.ev = "forward" /\ last.path = "/messages"
    /\ \E a, b \in DOMAIN sseTransports :
           /\ sseTransports[a].apiToken # sseTransports[b].apiToken
           /\ sseTransports[a].transport = last.t
           /\ clientInstance # sseTransports[a].apiToken

ErrorStatuses == {"400", "401", "404", "500"}

\* C19: every error response the router produces (400, 401, 404 or 500, on
\* any endpoint, DELETE /mcp included) carries both an `error` string and a
\* `message` string.
C19_ErrorBodyShape ==
    /\ (last.ev = "response" /\ last.status \in ErrorStatuses)
           => last.body = "error+message"
    /\ \A tok \in RequestTokens, sid \in ClientSids :
           ~ENABLED ( /\ McpRequest("DELETE", tok, sid)
                      /\ last'.ev = "response"
                      /\ last'.status \in ErrorStatuses
                      /\ last'.body # "error+message" )

C19_Witness ==
    /\ last.ev = "response" /\ last.path = "/sse" /\ last.status = "500"
    /\ last.body = "error+message"

\* C20: when the downstream client call of a tool handler throws, the handler
\* does not throw: it returns a result with isError true whose text is
\* 'Error: ' followed by the failure message, and the session's transport and
\* registry entry are as they were.
C20_ToolFailureIsResult ==
    \A r \in pending, d \in Downstream :
        (r.pc \in {"mcp_handle", "msg_handle"} /\ d.k = "throw") =>
            /\ ENABLED ToolCall(r, d)
            /\ ~ENABLED ( /\ ToolCall(r, d)
                          /\ ~( /\ last'.ev = "tool"
                                /\ last'.status = "isError"
                                /\ last'.body = "Error: " \o d.message
                                /\ UNCHANGED RouterState ) )

C20_Witness ==
    /\ last.ev = "tool" /\ last.status = "isError"
    /\ last.body = "Error: fetch failed"
    /\ tr[last.t].kind = "http"
    /\ MapHas(transports, tr[last.t].sid)

\* C21: GET /health and GET / answer 200 with a constant body in every
\* reachable state and leave the registries, the backend client and everything
\* else the router holds unchanged.
C21_HealthAndRootConstant ==
    /\ ENABLED Health
    /\ ~ENABLED ( /\ Health
                  /\ ~( /\ last' = Ev("response", "/health", "200", "status",
                                       0, Null)
                        /\ UNCHANGED RouterState ) )
    /\ ENABLED Root
    /\ ~ENABLED ( /\ Root
                  /\ ~( /\ last' = Ev("response", "/", "200", "info", 0, Null)
                        /\ UNCHANGED RouterState ) )

C21_Witness ==
    /\ last = Ev("response", "/health", "200", "status", 0, Null)
    /\ transports # EmptyMap /\ sseTransports # EmptyMap
    /\ pending # {}

\* The step is a /mcp request that creates a session: a transport is
\* constructed and its connect is awaited.
CreatesStreaming ==
    /\ NextT <= MaxTransports
    /\ tr[NextT].kind = "none" /\ tr'[NextT].kind = "http"
    /\ [pc |-> "mcp_connect", t |-> NextT] \in pending'

\* No entry of the streaming registry refers to transport t.
NoStreamingEntry(m, t) == \A k \in DOMAIN m : m[k] # t

\* C22: when connect fails during streaming session creation, before a
\* session id is assigned, the streaming registry has no entry for that
\* transport: neither the creating request nor the failure writes the
\* registry.
C22_FailedConnectNoEntry ==
    /\ \A m \in Methods, tok \in TruthyTokens, sid \in ClientSids :
           ~ENABLED ( /\ McpRequest(m, tok, sid)
                      /\ CreatesStreaming
                      /\ transports' # transports )
    /\ \A r \in pending :
           r.pc = "mcp_connect" =>
               /\ NoStreamingEntry(transports, r.t)
               /\ \A assigned \in BOOLEAN :
                      /\ ENABLED McpConnected(r, FALSE, assigned)
                      /\ ~ENABLED ( /\ McpConnected(r, FALSE, assigned)
                                    /\ ~( /\ transports' = transports
                                          /\ NoStreamingEntry(transports', r.t) ) )

C22_Witness ==
    /\ last.ev = "rejected" /\ last.path = "/mcp"
    /\ transports # EmptyMap
    /\ \E t \in TIds : tr[t] = ClosedTransport /\ NoStreamingEntry(transports, t)

\* The close event of transport t removes the entry of t's session from its
\* registry and no other entry.
CloseRemovesOwnEntry(t) ==
    /\ transports' = IF tr[t].kind = "http"
                     THEN MapDelete(transports, tr[t].sid) ELSE transports
    /\ sseTransports' = IF tr[t].kind = "sse"
                        THEN MapDelete(sseTransports, tr[t].sid)
                        ELSE sseTransports

\* C23 without the explicit close: every registered session has its close
\* handler set, and a close event removes that session's entry and no other.
C23_PeerClose ==
    /\ \A sid \in DOMAIN transports : tr[transports[sid]].onclose
    /\ \A sid \in DOMAIN sseTransports : tr[sseTransports[sid].transport].onclose
    /\ \A t \in TIds :
           (tr[t].kind \in {"http", "sse"} /\ tr[t].onclose) =>
               ~ENABLED (TransportClose(t) /\ ~CloseRemovesOwnEntry(t))
    /\ \A t \in TIds :
           tr[t].kind = "closed" => ~ENABLED TransportClose(t)

\* C23: for every registered streaming or legacy session the close handler
\* that removes its entry is set once at creation and the removal is
\* idempotent: after a peer-initiated close, after an explicit DELETE, or after
\* both in either order, the entry is absent, no other entry is removed and no
\* error is raised.
C23_CloseHandlerOnceIdempotent ==
    /\ C23_PeerClose
    /\ \A sid \in DOMAIN transports, tok \in RequestTokens :
           ~ENABLED ( /\ McpRequest("DELETE", tok, sid)
                      /\ MapHas(transports', sid) )

\* C24: every GET /sse with a credential adds exactly one entry to the legacy
\* registry, under a fresh id that the transport's message path embeds, with
\* the caller's credential stored beside the handle; it overwrites no entry and
\* leaves the other legacy entries and the streaming registry unchanged, and
\* the connect that completes it changes neither registry.
C24_SseAddsOneFreshEntry ==
    /\ \A tok \in TruthyTokens :
           ~ENABLED
             ( /\ SseRequest(tok)
               /\ ~( /\ Cardinality(DOMAIN sseTransports' \ DOMAIN sseTransports) = 1
                     /\ DOMAIN sseTransports \subseteq DOMAIN sseTransports'
                     /\ \A k \in DOMAIN sseTransports :
                            sseTransports'[k] = sseTransports[k]
                     /\ \A k \in DOMAIN sseTransports' \ DOMAIN sseTransports :
                            /\ k \notin Constructed
                            /\ sseTransports'[k].apiToken = tok
                            /\ tr[sseTransports'[k].transport].kind = "none"
                            /\ tr'[sseTransports'[k].transport].kind = "sse"
                            /\ tr'[sseTransports'[k].transport].sid = k
                     /\ transports' = transports ) )
    /\ \A r \in pending :
           r.pc = "sse_connect" =>
               /\ ENABLED SseConnected(r, "ok")
               /\ ~ENABLED ( /\ SseConnected(r, "ok")
                             /\ ~UNCHANGED <<transports, sseTransports>> )

C24_Witness ==
    /\ last = Ev("response", "/sse", "transport", "transport", 0, Null)
    /\ MapSize(sseTransports) = 2
    /\ \A r \in pending : r.pc # "sse_connect"

\* C25: a legacy session is in the registry only after its protocol server has
\* connected: while its connect is pending no POST /messages can find, count or
\* be routed to the session.
C25_LegacyEntryAfterConnect ==
    \A r \in pending :
        r.pc = "sse_connect" =>
            /\ \A sid \in DOMAIN sseTransports :
                   sseTransports[sid].transport # r.t
            /\ \A tok \in RequestTokens, sid \in ClientSids :
                   ~ENABLED ( /\ MessagesRequest(tok, sid)
                              /\ last'.ev = "forward" /\ last'.t = r.t )

\* Every entry of map m is in m' with the same value.
KeepsEntries(m, n) == \A k \in DOMAIN m : MapHas(n, k) /\ n[k] = m[k]

\* C26 without the registration of every session: no session-creating step,
\* at whichever await point the other requests are, overwrites or removes an
\* entry of another session, and the ids of the open sessions are distinct.
C26_NoOverwrite ==
    /\ \A r \in pending :
           /\ r.pc = "mcp_connect" =>
                  \A assigned \in BOOLEAN :
                      ~ENABLED ( /\ McpConnected(r, TRUE, assigned)
                                 /\ ~( /\ KeepsEntries(transports, transports')
                                       /\ sseTransports' = sseTransports ) )
           /\ r.pc = "sse_connect" =>
                  ~ENABLED ( /\ SseConnected(r, "ok")
                             /\ ~UNCHANGED <<transports, sseTransports>> )
    /\ \A tok \in TruthyTokens :
           ~ENABLED ( /\ SseRequest(tok)
                      /\ ~( /\ KeepsEntries(sseTransports, sseTransports')
                            /\ transports' = transports ) )
    /\ \A m \in Methods, tok \in TruthyTokens, sid \in ClientSids :
           ~ENABLED ( /\ McpRequest(m, tok, sid)
                      /\ ~UNCHANGED <<transports, sseTransports>> )
    /\ \A t, u \in TIds :
           ( /\ t # u
             /\ tr[t].kind \in {"http", "sse"} /\ tr[t].sid # NoSid
             /\ tr[u].kind \in {"http", "sse"} /\ tr[u].sid # NoSid )
               => tr[t].sid # tr[u].sid

\* C26: under every interleaving of concurrent requests at their await
\* points, two session-creating requests (on /mcp, on /sse, or one of each)
\* both end with their own entry registered under distinct ids, and neither
\* overwrites or removes the entry of the other.
C26_ConcurrentCreationsRegistered ==
    /\ C26_NoOverwrite
    /\ \A t \in TIds :
           /\ (tr[t].kind = "http" /\ tr[t].sid # NoSid)
                  => (MapHas(transports, tr[t].sid) /\ transports[tr[t].sid] = t)
           /\ ( /\ tr[t].kind = "sse"
                /\ [pc |-> "sse_connect", t |-> t] \notin pending )
                  => ( /\ MapHas(sseTransports, tr[t].sid)
                       /\ sseTransports[tr[t].sid].transport = t )

\* C27: closing a session does not cancel a request that has already resolved
\* the session's transport: the request stays in flight on that transport, it
\* completes or fails after the close, and its completion or failure does not
\* put the removed entry back.
C27_CloseKeepsInflight ==
    \A r \in pending :
        r.pc \in {"mcp_handle", "msg_handle"} =>
            /\ tr[r.t].kind \in {"http", "sse"} =>
                   /\ ENABLED TransportClose(r.t)
                   /\ ~ENABLED (TransportClose(r.t) /\ r \notin pending')
            /\ \A tok \in RequestTokens, sid \in ClientSids :
                   ~ENABLED (McpRequest("DELETE", tok, sid) /\ r \notin pending')
            /\ tr[r.t].kind = "closed" =>
                   \A o \in Outcomes :
                       /\ r.pc = "mcp_handle" =>
                              \A late \in BOOLEAN :
                                  /\ ENABLED McpHandled(r, o, late)
                                  /\ ~ENABLED
                                       ( /\ McpHandled(r, o, late)
                                         /\ ~UNCHANGED <<transports,
                                                         sseTransports>> )
                       /\ r.pc = "msg_handle" =>
                              /\ ENABLED MsgHandled(r, o)
                              /\ ~ENABLED
                                   ( /\ MsgHandled(r, o)
                                     /\ ~UNCHANGED <<transports, sseTransports>> )

C27_Witness ==
    \E r \in pending :
        /\ r.pc = "mcp_handle"
        /\ tr[r.t].kind = "closed" /\ tr[r.t].sid # NoSid
        /\ ~MapHas(transports, tr[r.t].sid)

\* C28: a /mcp request that reuses an existing streaming session is forwarded
\* on the existing transport and leaves the streaming registry, the legacy
\* registry, the transport objects and the backend client as they were: no
\* createMcpServer call happens on reuse.
C28_ReuseChangesNothing ==
    \A sid \in DOMAIN transports, m \in Methods, tok \in TruthyTokens :
        /\ CanSuspend("mcp_handle", transports[sid])
               => ENABLED McpRequest(m, tok, sid)
        /\ ~ENABLED ( /\ McpRequest(m, tok, sid)
                      /\ ~( /\ last'.ev = "forward"
                            /\ last'.t = transports[sid]
                            /\ clientInstance' = clientInstance
                            /\ tr' = tr
                            /\ transports' = transports
                            /\ sseTransports' = sseTransports ) )

C28_Witness ==
    /\ last.ev = "forward" /\ last.path = "/mcp"
    /\ tr[last.t].kind = "http"
    /\ MapHas(transports, tr[last.t].sid)
    /\ clientInstance # tr[last.t].cred

\* C29 without the registration of the new session: with a credential, a /mcp
\* request constructs a transport exactly when it supplies no mcp-session-id,
\* or its method is GET and the supplied id is not in the registry; every
\* registry key is the id of the transport stored under it, which the creating
\* request did not supply.
C29_CreationCondition ==
    /\ \A m \in Methods, tok \in TruthyTokens, sid \in ClientSids :
           IF sid = NoSid \/ (m = "GET" /\ ~MapHas(transports, sid))
           THEN /\ (NextT <= MaxTransports /\ CanSuspend("mcp_connect", NextT))
                       => ENABLED McpRequest(m, tok, sid)
                /\ ~ENABLED ( /\ McpRequest(m, tok, sid)
                              /\ ~(CreatesStreaming /\ NextT # sid) )
           ELSE ~ENABLED (McpRequest(m, tok, sid) /\ tr' # tr)
    /\ \A k \in DOMAIN transports : tr[transports[k]].sid = k

\* C29: a /mcp request with a credential creates a streaming session exactly
\* when it supplies no mcp-session-id or when its method is GET and the
\* supplied id is not in the registry; the new session is registered under a
\* freshly generated id, never under the id the client supplied.
C29_CreatesExactlyWhen ==
    /\ C29_CreationCondition
    /\ \A t \in StreamingSessions :
           [pc |-> "mcp_connect", t |-> t] \notin pending
               => \E k \in DOMAIN transports : transports[k] = t

\* C30 without the backend client: no id is a key of both registries, no
\* /mcp step writes the legacy registry and no /sse or /messages step writes
\* the streaming registry.
C30_RegistriesDisjoint ==
    /\ DOMAIN transports \cap DOMAIN sseTransports = {}
    /\ \A m \in Methods, tok \in RequestTokens, sid \in ClientSids :
           ~ENABLED (McpRequest(m, tok, sid) /\ sseTransports' # sseTransports)
    /\ \A tok \in RequestTokens :
           /\ ~ENABLED (SseRequest(tok) /\ transports' # transports)
           /\ \A sid \in ClientSids :
                  ~ENABLED (MessagesRequest(tok, sid) /\ transports' # transports)
    /\ \A r \in pending, o \in Outcomes :
           /\ \A b \in BOOLEAN :
                  /\ ~ENABLED ( /\ McpConnected(r, o = "ok", b)
                                /\ sseTransports' # sseTransports )
                  /\ ~ENABLED ( /\ McpHandled(r, o, b)
                                /\ sseTransports' # sseTransports )
           /\ ~ENABLED (SseConnected(r, o) /\ transports' # transports)
           /\ ~ENABLED (MsgHandled(r, o) /\ transports' # transports)

\* C30: the two registries are independent: no id is a key of both, /mcp
\* leaves the legacy registry alone, /sse and /messages leave the streaming
\* registry alone, and the sessions of the two transport kinds share no state:
\* no /sse step changes the client the tools of an open streaming session call
\* with, and no /mcp step the client of an open legacy session.
C30_RegistriesIndependent ==
    /\ C30_RegistriesDisjoint
    /\ (\E t \in TIds : tr[t].kind = "http") =>
           \A tok \in RequestTokens :
               ~ENABLED (SseRequest(tok) /\ clientInstance' # clientInstance)
    /\ (\E t \in TIds : tr[t].kind = "sse") =>
           \A m \in Methods, tok \in RequestTokens, sid \in ClientSids :
               ~ENABLED ( /\ McpRequest(m, tok, sid)
                          /\ clientInstance' # clientInstance )

\* A config parameter that yields no credential: it fails base64/JSON
\* decoding, or decodes to an object without a usable apiToken.
ConfigYieldsNone(config) ==
    config.k = "bad" \/ (config.k = "json" /\ Falsy(config.v))

\* C31: a config query parameter that fails decoding, or decodes to an object
\* without a credential field, is not an error: the extraction falls through
\* to the X-API-Token header and returns its value if the header is present,
\* none otherwise.  The returned value is observed as the credential GET /sse
\* hands to createMcpServer.
C31_BadConfigFallsThrough ==
    \A auth \in {a \in AuthHeaders : a.k # "bearer"},
       config \in {c \in ConfigParams : ConfigYieldsNone(c)},
       xtok \in XTokenHeaders :
        /\ extractApiToken(auth, config, xtok) =
               (IF xtok.k = "string" THEN xtok.v ELSE Null)
        /\ XTokenCarries(xtok) =>
               ~ENABLED ( /\ SseRequest(extractApiToken(auth, config, xtok))
                          /\ clientInstance' # xtok.v )

C31_Witness ==
    \E sid \in DOMAIN sseTransports :
        \E auth \in {a \in AuthHeaders : a.k # "bearer"},
           config \in {c \in ConfigParams : ConfigYieldsNone(c)},
           xtok \in {x \in XTokenHeaders : XTokenCarries(x)} :
            /\ sseTransports[sid].apiToken = extractApiToken(auth, config, xtok)
            /\ sseTransports[sid].apiToken = xtok.v
            /\ clientInstance = xtok.v

\* C32: no /mcp request is forwarded to a streaming transport registered under
\* an id other than the one in its mcp-session-id header: a request without a
\* session id or with an unknown id is handled by a newly constructed transport
\* or rejected, never by an existing session.
C32_NoCrossSessionForward ==
    \A m \in Methods, tok \in RequestTokens, sid \in ClientSids :
        /\ ~ENABLED ( /\ McpRequest(m, tok, sid)
                      /\ last'.ev = "forward"
                      /\ ~( /\ sid # NoSid /\ MapHas(transports, sid)
                            /\ last'.t = transports[sid]
                            /\ tr[last'.t].sid = sid ) )
        /\ (sid = NoSid \/ ~MapHas(transports, sid)) =>
               ~ENABLED ( /\ McpRequest(m, tok, sid)
                          /\ ~( \/ CreatesStreaming
                                   /\ pending' \ pending =
                                          {[pc |-> "mcp_connect", t |-> NextT]}
                                \/ /\ last'.ev = "response"
                                   /\ last'.status \in {"401", "404"}
                                   /\ UNCHANGED RouterState ) )

C32_Witness ==
    /\ transports # EmptyMap
    /\ \E r \in pending :
           /\ r.pc = "mcp_connect"
           /\ NoStreamingEntry(transports, r.t)
           /\ \A k \in DOMAIN transports :
                  [pc |-> "mcp_handle", t |-> transports[k]] \notin pending

RegisteredSessions ==
    {transports[k] : k \in DOMAIN transports}
        \cup {sseTransports[k].transport : k \in DOMAIN sseTransports}

\* The newest transport object constructed.
Newest == Cardinality(Constructed)

\* C34 as stated: the backend client getClient returns holds the credential of
\* the most recently created session of either kind.  Evaluated where the
\* sessions created are known: a GET /sse has just failed to connect, its
\* transport is the only one that is not a registered session, and no creation
\* is pending; the most recently created session is then the newest registered
\* one.
C34_Original ==
    ( /\ last = Ev("response", "/sse", "500", "error+message", 0, Null)
      /\ RegisteredSessions # {}
      /\ Cardinality(Constructed \ RegisteredSessions) = 1
      /\ \A r \in pending : r.pc \notin {"mcp_connect", "sse_connect"} )
        => getClient = tr[CHOOSE t \in RegisteredSessions :
                             \A u \in RegisteredSessions : u <= t].cred

\* C34 as amended: the backend client getClient returns holds the credential
\* of the most recent session-creation attempt of either kind, that is of the
\* most recent createMcpServer call, also when the connect that follows fails
\* and no session results; an attempt replaces the client used by all earlier
\* sessions, and no other step (closing a session, reusing one, delivering a
\* message, a connect or a message settling, a tool call) changes it.
C34_ClientOfLatestAttempt ==
    /\ Constructed = {} => clientInstance = Null
    /\ (Constructed # {} /\ tr[Newest].kind \in {"http", "sse"})
           => getClient = tr[Newest].cred
    /\ \A tok \in TruthyTokens :
           /\ ~ENABLED (SseRequest(tok) /\ clientInstance' # tok)
           /\ \A m \in Methods, sid \in ClientSids :
                  ~ENABLED ( /\ McpRequest(m, tok, sid)
                             /\ clientInstance' #
                                    (IF sid = NoSid
                                        \/ (m = "GET" /\ ~MapHas(transports, sid))
                                     THEN tok ELSE clientInstance) )
    /\ \A t \in TIds :
           ~ENABLED (TransportClose(t) /\ clientInstance' # clientInstance)
    /\ \A tok \in RequestTokens, sid \in ClientSids :
           ~ENABLED (MessagesRequest(tok, sid) /\ clientInstance' # clientInstance)
    /\ \A r \in pending, o \in Outcomes :
           /\ \A b \in BOOLEAN :
                  /\ ~ENABLED ( /\ McpConnected(r, o = "ok", b)
                                /\ clientInstance' # clientInstance )
                  /\ ~ENABLED ( /\ McpHandled(r, o, b)
                                /\ clientInstance' # clientInstance )
           /\ ~ENABLED (SseConnected(r, o) /\ clientInstance' # clientInstance)
           /\ ~ENABLED (MsgHandled(r, o) /\ clientInstance' # clientInstance)
    /\ \A r \in pending, d \in Downstream :
           ~ENABLED (ToolCall(r, d) /\ clientInstance' # clientInstance)

C34_Witness ==
    /\ Newest = 2
    /\ tr[1].kind = "closed" /\ tr[1].sid # NoSid
    /\ tr[2].kind = "sse" /\ MapHas(sseTransports, 2)
    /\ getClient = tr[2].cred
    /\ pending = {}

\* C35: a /mcp request that reuses an existing streaming session is accepted
\* with any non-empty credential, which is not compared with the credential
\* that created the session: two reuse requests that differ only in their
\* credential can be made in the same states, take the same step, are forwarded
\* to the same transport and leave both registries as they were; neither is
\* answered 401 or 404.
C35_ReuseWithAnyCredential ==
    \A sid \in DOMAIN transports, m \in Methods, tok1 \in TruthyTokens,
       tok2 \in TruthyTokens :
        /\ ENABLED McpRequest(m, tok1, sid) <=> ENABLED McpRequest(m, tok2, sid)
        /\ ~ENABLED (McpRequest(m, tok1, sid) /\ ~McpRequest(m, tok2, sid))
        /\ ~ENABLED ( /\ McpRequest(m, tok1, sid)
                      /\ ~( /\ last'.ev = "forward"
                            /\ last'.t = transports[sid]
                            /\ transports' = transports
                            /\ sseTransports' = sseTransports ) )

C35_Witness ==
    /\ last.ev = "forward" /\ last.path = "/mcp"
    /\ MapSize(transports) = 2
    /\ \E k \in DOMAIN transports : transports[k] = last.t
    /\ \E tok \in TruthyTokens : tok # tr[last.t].cred /\ getClient = tok

\* C36: each key k of the streaming registry maps to a streaming transport
\* whose sessionId is k, each key k of the legacy registry maps to a legacy
\* transport whose sessionId, the one its message path carries, is k, and no
\* two keys of the registries map to the same transport.
C36_KeysAreSessionIds ==
    /\ \A k \in DOMAIN transports :
           /\ tr[transports[k]].kind = "http"
           /\ tr[transports[k]].sid = k
    /\ \A k \in DOMAIN sseTransports :
           /\ tr[sseTransports[k].transport].kind = "sse"
           /\ tr[sseTransports[k].transport].sid = k
    /\ \A j \in DOMAIN transports, k \in DOMAIN transports :
           transports[j] = transports[k] => j = k
    /\ \A j \in DOMAIN sseTransports, k \in DOMAIN sseTransports :
           sseTransports[j].transport = sseTransports[k].transport => j = k
    /\ \A j \in DOMAIN transports, k \in DOMAIN sseTransports :
           transports[j] # sseTransports[k].transport

C36_Witness ==
    /\ MapSize(transports) = 1 /\ MapSize(sseTransports) = 1
    /\ pending = {}

\* C37: every step that ends a request writes a response: when the connect or
\* the transport call a request is suspended on settles and the handler does
\* not suspend again, the request is answered, by the router or by the
\* transport.
C37_SettledRequestsAnswered ==
    \A r \in pending, o \in Outcomes, b \in BOOLEAN :
        /\ ~ENABLED ( /\ McpConnected(r, o = "ok", b)
                      /\ Cardinality(pending') < Cardinality(pending)
                      /\ last'.ev # "response" )
        /\ ~ENABLED (McpHandled(r, o, b) /\ last'.ev # "response")
        /\ ~ENABLED (SseConnected(r, o) /\ last'.ev # "response")
        /\ ~ENABLED (MsgHandled(r, o) /\ last'.ev # "response")

\* C38: when the connect of a GET /sse fails, the handler removes from the
\* legacy registry the entry stored for that session and no other entry, and
\* leaves the streaming registry as it was; the request itself had added that
\* entry and no other.
C38_FailedSseRestoresRegistry ==
    /\ \A r \in {q \in pending : q.pc = "sse_connect"} :
           \A o \in {"throw", "throw_sent"} :
               /\ ENABLED SseConnected(r, o)
               /\ ~ENABLED ( /\ SseConnected(r, o)
                             /\ ~( /\ ~MapHas(sseTransports', r.t)
                                   /\ sseTransports' = MapDelete(sseTransports, r.t)
                                   /\ transports' = transports ) )
    /\ \A tok \in TruthyTokens :
           ~ENABLED ( /\ SseRequest(tok)
                      /\ ~( /\ ~MapHas(sseTransports, NextT)
                            /\ MapHas(sseTransports', NextT)
                            /\ MapDelete(sseTransports', NextT) = sseTransports ) )

C38_Witness ==
    /\ last.ev = "response" /\ last.path = "/sse" /\ last.status = "500"
    /\ MapSize(sseTransports) = 1
    /\ tr[SoleSession.transport].kind = "sse"
    /\ \E t \in TIds : t > SoleSession.transport /\ tr[t] = ClosedTransport

====
